---- MODULE Spec2Model ----
(***************************************************************************)
(* A model of the CTerminal shell (src/main.cpp): the interpreter loop     *)
(* with its tokenizer, alias substitution, history log and bookmark table, *)
(* the `tail -f` file follower and the `calc` expression evaluator.        *)
(*                                                                         *)
(* Text is modelled character by character: a std::string is a sequence of *)
(* one-character strings, so "ls -l" is <<"l","s"," ","-","l">>.           *)
(* C++ indices are 0-based; the operators that mirror std::string members  *)
(* (Substr, find, find_first_of) take and return 0-based positions.        *)
(***************************************************************************)
EXTENDS Integers, Sequences, FiniteSets, TLC

VARIABLES
    \* ---- interpreter loop (main) ----
    status,       \* "running" | "exited" (break / return 0) | "aborted" (uncaught exception) | "following" (blocked in tail -f)
    pc,           \* position in the loop body: "read" (before getline) | "dispatch" (before split_args + the if-chain)
    nread,        \* number of lines getline has delivered
    raw,          \* the line as read by getline
    line,         \* the variable `line` after substitute_aliases
    history_buf,  \* static vector<string> history_buf
    alias_map,    \* static map<string,string> alias_map
    bookmarks,    \* static map<string,string> bookmarks
    cwd,          \* the process working directory (fs::current_path)
    dirs,         \* the directories that exist
    files,        \* the regular files that exist
    perms,        \* the permission bits <<owner, group, other>> of each regular file
    out,          \* lines written to cout by the last handler
    diag,         \* diagnostic written to cerr by the last handler ("" when none)
    handler,      \* the handler the dispatch chain called last ("" when none)
    popen_line,   \* the command line handed to popen by the fallback (<<>> when none)
    tailf_file,   \* the path cmd_tailf opened (<<>> when none)
    \* ---- file follower (cmd_tailf after a successful open) ----
    fbytes,       \* the content of the followed file
    fpos,         \* the stream position of the ifstream
    start_off,    \* the offset the replay starts at (line 426)
    eofbit,       \* ios::eofbit of the ifstream
    failbit,      \* ios::failbit of the ifstream
    fpc,          \* "idle" | "open" (line 420 passed) | "catchup" (line 432) | "follow" (line 435) | "sleep" (line 436)
    emitted,      \* the lines written to cout, each with where it was read
    \* ---- expression evaluator (cmd_calc) ----
    expr,         \* the expression string handed to cmd_calc
    expr_tree,    \* the syntax tree expr was written from (NoTree when none)
    expr_ptr,     \* the cursor expr_ptr when parse_expression returned (0-based)
    calc_pc,      \* "idle" | "ready" (expression chosen) | "done" (result printed)
    calc_res,     \* the value parse_expression returned
    \* ---- a call of split_args on its own ----
    tok_in,       \* the string handed to split_args
    tok_out,      \* the tokens split_args returned
    tok_re,       \* the tokens split_args returned for the re-joined tokens
    tok_pc,       \* "idle" | "ready" (input chosen) | "split" | "again"
    \* ---- cmd_replace ----
    disk,         \* the files cmd_replace can see: path |-> content
    writable,     \* the paths an ofstream can open (permissions, free space)
    rp_args,      \* the argument vector a
    rp_file,      \* the local file, a[1]
    rp_old,       \* the local oldv, a[2]
    rp_new,       \* the local newv, a[3]
    rp_orig,      \* the content of the file when cmd_replace was called
    rp_content,   \* the local string content
    rp_pos,       \* the local pos (0-based, npos after the last find)
    rp_pc,        \* "idle" | "called" | "read" (line 810) | "find" (line 816) | "subst" (line 817)
                  \* | "edited" (line 820) | "writing" | "write_failed" | "stored" | "returned"
    rp_diag       \* the diagnostic of cmd_replace ("" when none)

replVars == <<status, pc, nread, raw, line, history_buf, alias_map, bookmarks,
              cwd, dirs, files, perms, out, diag, handler, popen_line, tailf_file>>
followVars == <<fbytes, fpos, start_off, eofbit, failbit, fpc, emitted>>
calcVars == <<expr, expr_tree, expr_ptr, calc_pc, calc_res>>
tokVars == <<tok_in, tok_out, tok_re, tok_pc>>
replaceVars == <<disk, writable, rp_args, rp_file, rp_old, rp_new, rp_orig, rp_content, rp_pos,
                 rp_pc, rp_diag>>
toolVars == <<tokVars, replaceVars>>
vars == <<replVars, followVars, calcVars, toolVars>>

(***************************************************************************)
(* Bounds of the model.                                                    *)
(***************************************************************************)
MaxLines == 3

(***************************************************************************)
(* std::string helpers.                                                    *)
(***************************************************************************)
npos == -1

Min(a, b) == IF a < b THEN a ELSE b

IsSpace(c) == c \in {" ", "\t"}

IsDigit(c) == c \in {"0", "1", "2", "3", "4", "5", "6", "7", "8", "9"}

DigitChars == <<"0", "1", "2", "3", "4", "5", "6", "7", "8", "9">>

DigitValue(c) == (CHOOSE i \in 1..10 : DigitChars[i] = c) - 1

Front(s) == s[1]

Back(s) == s[Len(s)]

\* s.substr(pos, n)
Substr(s, pos, n) == SubSeq(s, pos + 1, Min(pos + n, Len(s)))

\* s.substr(pos)
SubstrFrom(s, pos) == SubSeq(s, pos + 1, Len(s))

\* s.find_first_of(chars): the 0-based position of the first character of s in chars
find_first_of(s, chars) ==
    IF \E i \in 1..Len(s) : s[i] \in chars
    THEN (CHOOSE i \in 1..Len(s) : s[i] \in chars /\ \A j \in 1..(i - 1) : s[j] \notin chars) - 1
    ELSE npos

\* s.find(c)
find(s, c) == find_first_of(s, {c})

\* operator<< of an unsigned integer
RECURSIVE to_string(_)
to_string(n) ==
    IF n < 10 THEN <<DigitChars[n + 1]>>
    ELSE to_string(n \div 10) \o <<DigitChars[(n % 10) + 1]>>

\* std::stoi: skips leading whitespace, takes an optional sign and then digits;
\* the result is [ok |-> TRUE, val |-> n], or [ok |-> FALSE] when it throws
\* (invalid_argument: no digit; out_of_range: the value does not fit an int).
RECURSIVE SkipSpaces(_, _)
SkipSpaces(s, i) == IF i <= Len(s) /\ IsSpace(s[i]) THEN SkipSpaces(s, i + 1) ELSE i

RECURSIVE DigitRunEnd(_, _)
DigitRunEnd(s, i) == IF i <= Len(s) /\ IsDigit(s[i]) THEN DigitRunEnd(s, i + 1) ELSE i

RECURSIVE DigitsValue(_, _, _)
DigitsValue(s, i, j) ==
    IF j < i THEN 0 ELSE DigitsValue(s, i, j - 1) * 10 + DigitValue(s[j])

stoi(s) ==
    LET i == SkipSpaces(s, 1)
        signed == i <= Len(s) /\ s[i] \in {"+", "-"}
        d == IF signed THEN i + 1 ELSE i
        e == DigitRunEnd(s, d)
        mag == DigitsValue(s, d, e - 1)
        val == IF signed /\ s[i] = "-" THEN 0 - mag ELSE mag
    IN  IF e = d THEN [ok |-> FALSE, val |-> 0]
        ELSE IF val > 2^31 - 1 \/ val < 0 - 2^31 THEN [ok |-> FALSE, val |-> 0]
        ELSE [ok |-> TRUE, val |-> val]

(***************************************************************************)
(* Tokenizer: split_args.                                                  *)
(***************************************************************************)
\* The successive results of `iss >> token`: the maximal runs of
\* non-whitespace characters of s, in order.
RECURSIVE ExtractWords(_, _, _, _)
ExtractWords(s, i, cur, acc) ==
    IF i > Len(s) THEN (IF cur = <<>> THEN acc ELSE Append(acc, cur))
    ELSE IF IsSpace(s[i])
         THEN ExtractWords(s, i + 1, <<>>, IF cur = <<>> THEN acc ELSE Append(acc, cur))
         ELSE ExtractWords(s, i + 1, Append(cur, s[i]), acc)

Words(s) == ExtractWords(s, 1, <<>>, <<>>)

\* the inner loop `while (iss >> rest)`: append the following words, joined by
\* single spaces, through the first one that ends with the quote
RECURSIVE AbsorbQuoted(_, _, _, _)
AbsorbQuoted(ws, j, token, quote) ==
    IF j > Len(ws) THEN [tok |-> token, next |-> j]
    ELSE LET t2 == token \o <<" ">> \o ws[j]
         IN  IF Back(ws[j]) = quote THEN [tok |-> t2, next |-> j + 1]
             ELSE AbsorbQuoted(ws, j + 1, t2, quote)

\* the opening test without the look at the last character
OpensQuote_by_front(token) == Front(token) \in {"\"", "'"}

\* the test of lines 108-109
OpensQuote(token) ==
    \/ Front(token) = "\"" /\ Back(token) # "\""
    \/ Front(token) = "'" /\ Back(token) # "'"

\* the stripping decided by the last character alone
StripQuotes_by_back(token) ==
    IF Len(token) >= 2 /\ Back(token) \in {"\"", "'"}
    THEN Substr(token, 1, Len(token) - 2)
    ELSE token

\* lines 117-119: a token of size >= 2 bounded by the same quote loses both
StripQuotes(token) ==
    IF /\ Len(token) >= 2
       /\ \/ Front(token) = "\"" /\ Back(token) = "\""
          \/ Front(token) = "'" /\ Back(token) = "'"
    THEN Substr(token, 1, Len(token) - 2)
    ELSE token

RECURSIVE SplitWords(_, _, _)
SplitWords(ws, i, acc) ==
    IF i > Len(ws) THEN acc
    ELSE LET joined == IF OpensQuote(ws[i])
                       THEN AbsorbQuoted(ws, i + 1, ws[i], Front(ws[i]))
                       ELSE [tok |-> ws[i], next |-> i + 1]
         IN  SplitWords(ws, joined.next, Append(acc, StripQuotes(joined.tok)))

split_args(s) == SplitWords(Words(s), 1, <<>>)

(***************************************************************************)
(* Alias substitution.                                                     *)
(***************************************************************************)
\* m[k] = v of a std::map
MapPut(m, k, v) == [x \in DOMAIN m \cup {k} |-> IF x = k THEN v ELSE m[x]]

\* m.erase(k)
MapErase(m, k) == [x \in DOMAIN m \ {k} |-> m[x]]

EmptyMap == [x \in {} |-> <<>>]

\* no substitution at all
substitute_aliases_none(l) == l

\* the substitution applied to its own result once more
substitute_aliases_twice(l) ==
    LET once(x) ==
            LET args == split_args(x)
            IN  IF args = <<>> THEN x
                ELSE IF args[1] \notin DOMAIN alias_map THEN x
                ELSE LET pos == find_first_of(x, {" ", "\t"})
                         rest == IF Len(args) > 1 /\ pos # npos
                                 THEN SubstrFrom(x, pos + 1) ELSE <<>>
                     IN  alias_map[args[1]] \o (IF rest = <<>> THEN <<>> ELSE <<" ">> \o rest)
    IN  once(once(l))

substitute_aliases(l) ==
    LET args == split_args(l)
    IN  IF args = <<>> THEN l
        ELSE IF args[1] \notin DOMAIN alias_map THEN l
        ELSE LET pos == find_first_of(l, {" ", "\t"})
                 rest == IF Len(args) > 1 /\ pos # npos THEN SubstrFrom(l, pos + 1) ELSE <<>>
             IN  alias_map[args[1]] \o (IF rest = <<>> THEN <<>> ELSE <<" ">> \o rest)

(***************************************************************************)
(* The filesystem as the handlers see it: the set of existing directories  *)
(* and regular files, each an absolute path, and the working directory.    *)
(***************************************************************************)
Root == <<"/">>

\* the path the OS resolves p to: p itself when absolute, else p under cwd
Resolve(p) ==
    IF Len(p) > 0 /\ Front(p) = "/" THEN p
    ELSE IF cwd = Root THEN cwd \o p
    ELSE cwd \o <<"/">> \o p

\* p is d or lies beneath d
IsUnder(d, p) ==
    \/ p = d
    \/ d = Root /\ Len(p) > 1 /\ Front(p) = "/"
    \/ Len(p) > Len(d) + 1 /\ SubSeq(p, 1, Len(d)) = d /\ p[Len(d) + 1] = "/"

\* the directory holding p
Parent(p) ==
    LET slashes == {i \in 1..Len(p) : p[i] = "/"}
        last == CHOOSE i \in slashes : \A j \in slashes : j <= i
    IN  IF last = 1 THEN Root ELSE SubSeq(p, 1, last - 1)

(***************************************************************************)
(* Handlers.  Each one is the action of a call cmd_x(args): it gives the   *)
(* next value of every variable a handler can change.                      *)
(***************************************************************************)
Returns == status' = "running"

Throws == status' = "aborted"

Say(lines) == out' = lines /\ diag' = ""

Complain(msg) == out' = <<>> /\ diag' = msg

cmd_cd(a) ==
    /\ Returns
    /\ UNCHANGED <<history_buf, alias_map, bookmarks, dirs, files, tailf_file, perms>>
    /\ IF Len(a) < 2 THEN Complain("cd: missing arg") /\ UNCHANGED cwd
       ELSE IF Resolve(a[2]) \in dirs THEN cwd' = Resolve(a[2]) /\ Say(<<>>)
       ELSE Complain("cd: filesystem error") /\ UNCHANGED cwd

cmd_pwd ==
    /\ Returns
    /\ UNCHANGED <<history_buf, alias_map, bookmarks, cwd, dirs, files, tailf_file, perms>>
    /\ IF cwd \in dirs THEN Say(<<cwd>>) ELSE Complain("?")

cmd_rmdir(a) ==
    /\ Returns
    /\ UNCHANGED <<history_buf, alias_map, bookmarks, cwd, tailf_file>>
    /\ IF Len(a) < 2 THEN Complain("rmdir: missing dir") /\ UNCHANGED <<dirs, files, perms>>
       ELSE LET target == Resolve(a[2])
                gone == IF target \in dirs
                        THEN {p \in dirs \cup files : IsUnder(target, p)}
                        ELSE {target} \cap files
            IN  /\ dirs' = dirs \ gone
                /\ files' = files \ gone
                /\ perms' = [f \in files \ gone |-> perms[f]]
                /\ Say(<<<<"r","e","m","o","v","e","d"," ">> \o to_string(Cardinality(gone)) \o <<" ","e","n","t","r","i","e","s">>>>)

\* the mode an ofstream creates a file with: 0666 under the usual umask 022
DefaultMode == <<6, 4, 4>>

cmd_touch(a) ==
    /\ Returns
    /\ UNCHANGED <<history_buf, alias_map, bookmarks, cwd, dirs, tailf_file>>
    /\ IF Len(a) < 2 THEN Complain("touch: missing file") /\ UNCHANGED <<files, perms>>
       ELSE LET target == Resolve(a[2])
            IN  IF target \notin dirs /\ Parent(target) \in dirs
                THEN /\ files' = files \cup {target}
                     /\ perms' = [f \in files \cup {target} |->
                                     IF f \in files THEN perms[f] ELSE DefaultMode]
                     /\ Say(<<>>)
                ELSE Complain("touch: cannot create") /\ UNCHANGED <<files, perms>>

RECURSIVE JoinArgs(_, _)
JoinArgs(a, i) ==
    IF i > Len(a) THEN <<>>
    ELSE (IF i > 2 THEN <<" ">> ELSE <<>>) \o a[i] \o JoinArgs(a, i + 1)

cmd_echo(a) ==
    /\ Returns
    /\ UNCHANGED <<history_buf, alias_map, bookmarks, cwd, dirs, files, tailf_file, perms>>
    /\ Say(<<JoinArgs(a, 2)>>)

cmd_tail(a) ==
    /\ Returns
    /\ UNCHANGED <<history_buf, alias_map, bookmarks, cwd, dirs, files, tailf_file, perms>>
    /\ IF Len(a) < 2 THEN Complain("tail: missing file")
       ELSE IF Resolve(a[2]) \notin files THEN Complain("tail: cannot open file")
       ELSE Say(<<>>)

\* cmd_tailf is handed the same args as the dispatch saw, [tail, -f, F], and
\* names the file a[1] (here a[2]: sequences are 1-based).  After a
\* successful open the call never returns: the shell stays in the follower.
cmd_tailf(a) ==
    /\ UNCHANGED <<history_buf, alias_map, bookmarks, cwd, dirs, files, perms>>
    /\ IF Len(a) < 2 THEN Complain("tail -f: missing file") /\ Returns /\ UNCHANGED tailf_file
       ELSE LET fname == a[2]
            IN  IF Resolve(fname) \notin files
                THEN Complain("tail -f: cannot open file") /\ Returns /\ UNCHANGED tailf_file
                ELSE /\ tailf_file' = Resolve(fname)
                     /\ status' = "following"
                     /\ Say(<<>>)

\* cmd_history with the bound of the listing loop one short
cmd_history_one_short(a) ==
    /\ Returns
    /\ UNCHANGED <<alias_map, bookmarks, cwd, dirs, files, tailf_file, perms>>
    /\ IF Len(a) > 1 /\ a[2] = <<"-","c">>
       THEN history_buf' = <<>> /\ Say(<<<<"h","i","s","t","o","r","y"," ","c","l","e","a","r","e","d">>>>)
       ELSE /\ UNCHANGED history_buf
            /\ Say([i \in 1..(Len(history_buf) - 1) |-> to_string(i) \o <<" "," ">> \o history_buf[i]])

cmd_history(a) ==
    /\ Returns
    /\ UNCHANGED <<alias_map, bookmarks, cwd, dirs, files, tailf_file, perms>>
    /\ IF Len(a) > 1 /\ a[2] = <<"-","c">>
       THEN history_buf' = <<>> /\ Say(<<<<"h","i","s","t","o","r","y"," ","c","l","e","a","r","e","d">>>>)
       ELSE /\ UNCHANGED history_buf
            /\ Say([i \in 1..Len(history_buf) |-> to_string(i) \o <<" "," ">> \o history_buf[i]])

cmd_alias(a) ==
    /\ Returns
    /\ UNCHANGED <<history_buf, bookmarks, cwd, dirs, files, tailf_file, perms>>
    /\ IF Len(a) < 2 THEN Complain("alias: usage alias name='command'") /\ UNCHANGED alias_map
       ELSE LET s == a[2]
                pos == find(s, "=")
            IN  IF pos = npos THEN Complain("alias: need name=command") /\ UNCHANGED alias_map
                ELSE LET name == Substr(s, 0, pos)
                         cmd == StripQuotes(SubstrFrom(s, pos + 1))
                     IN  /\ alias_map' = MapPut(alias_map, name, cmd)
                         /\ Say(<<<<"a","l","i","a","s"," ">> \o name \o <<" ","-",">"," ">> \o cmd>>)

cmd_unalias(a) ==
    /\ Returns
    /\ UNCHANGED <<history_buf, bookmarks, cwd, dirs, files, tailf_file, perms>>
    /\ IF Len(a) < 2 THEN Complain("unalias: usage unalias name") /\ UNCHANGED alias_map
       ELSE IF a[2] \notin DOMAIN alias_map THEN Complain("unalias: not found") /\ UNCHANGED alias_map
       ELSE alias_map' = MapErase(alias_map, a[2]) /\ Say(<<<<"u","n","a","l","i","a","s",":"," ","r","e","m","o","v","e","d">>>>)

\* the -c scan of cmd_ping: i runs over the 0-based indices 2 .. size-2
PingCountThrows(a) ==
    \E i \in 3..(Len(a) - 1) :
        /\ a[i] = <<"-","c">>
        /\ ~stoi(a[i + 1]).ok

cmd_ping(a) ==
    /\ UNCHANGED <<history_buf, alias_map, bookmarks, cwd, dirs, files, tailf_file, perms>>
    /\ IF Len(a) < 2 THEN Complain("ping: missing host") /\ Returns
       ELSE IF PingCountThrows(a) THEN Say(<<>>) /\ Throws
       ELSE Say(<<>>) /\ Returns

\* std::to_string of an int
int_to_string(n) == IF n < 0 THEN <<"-">> \o to_string(0 - n) ELSE to_string(n)

\* what cmd_random can print: count draws from minv..maxv on one line,
\* separated by single spaces (nothing at all when count <= 0)
RECURSIVE RandomLine(_, _, _)
RandomLine(minv, maxv, count) ==
    IF count = 1 THEN {int_to_string(n) : n \in minv..maxv}
    ELSE {int_to_string(n) \o <<" ">> \o r : n \in minv..maxv, r \in RandomLine(minv, maxv, count - 1)}

RandomLines(minv, maxv, count) ==
    IF count <= 0 THEN {<<>>} ELSE {<<l>> : l \in RandomLine(minv, maxv, count)}

cmd_random(a) ==
    /\ UNCHANGED <<history_buf, alias_map, bookmarks, cwd, dirs, files, tailf_file, perms>>
    /\ LET minv == IF Len(a) >= 2 THEN stoi(a[2]) ELSE [ok |-> TRUE, val |-> 0]
           maxv == IF Len(a) >= 3 THEN stoi(a[3]) ELSE [ok |-> TRUE, val |-> 100]
           count == IF Len(a) >= 4 THEN stoi(a[4]) ELSE [ok |-> TRUE, val |-> 1]
       IN  IF ~minv.ok \/ ~maxv.ok \/ ~count.ok
           THEN Say(<<>>) /\ Throws
           ELSE IF minv.val > maxv.val
           THEN Say(<<>>) /\ status' \in {"running", "aborted"}
           ELSE /\ Returns
                /\ \E l \in RandomLines(minv.val, maxv.val, count.val) : Say(l)

cmd_bookmark(a) ==
    /\ Returns
    /\ UNCHANGED <<history_buf, alias_map, cwd, dirs, files, tailf_file, perms>>
    /\ IF Len(a) < 2 THEN Complain("bookmark: usage bookmark <name>") /\ UNCHANGED bookmarks
       ELSE IF cwd \notin dirs THEN Complain("bookmark: filesystem error") /\ UNCHANGED bookmarks
       ELSE /\ bookmarks' = MapPut(bookmarks, a[2], cwd)
            /\ Say(<<<<"b","o","o","k","m","a","r","k","e","d"," ">> \o a[2] \o <<" ","-",">"," ">> \o cwd>>)

cmd_unbookmark(a) ==
    /\ Returns
    /\ UNCHANGED <<history_buf, alias_map, cwd, dirs, files, tailf_file, perms>>
    /\ IF Len(a) < 2 THEN Complain("unbookmark: usage unbookmark <name>") /\ UNCHANGED bookmarks
       ELSE IF a[2] \in DOMAIN bookmarks
       THEN bookmarks' = MapErase(bookmarks, a[2]) /\ Say(<<<<"r","e","m","o","v","e","d">>>>)
       ELSE Complain("unbookmark: not found") /\ UNCHANGED bookmarks

\* cmd_goto changing to the directory named like the bookmark, not to the
\* path the bookmark holds
cmd_goto_by_name(a) ==
    /\ Returns
    /\ UNCHANGED <<history_buf, alias_map, bookmarks, dirs, files, tailf_file, perms>>
    /\ IF Len(a) < 2 THEN Complain("goto: usage goto <name>") /\ UNCHANGED cwd
       ELSE IF a[2] \notin DOMAIN bookmarks THEN Complain("goto: not found") /\ UNCHANGED cwd
       ELSE IF Resolve(a[2]) \in dirs
       THEN cwd' = Resolve(a[2]) /\ Say(<<<<"c","w","d"," ","-",">"," ">> \o bookmarks[a[2]]>>)
       ELSE Complain("goto: filesystem error") /\ UNCHANGED cwd

\* cmd_goto dropping a bookmark whose directory is gone
cmd_goto_drop_stale(a) ==
    /\ Returns
    /\ UNCHANGED <<history_buf, alias_map, dirs, files, tailf_file, perms>>
    /\ IF Len(a) < 2 THEN Complain("goto: usage goto <name>") /\ UNCHANGED <<cwd, bookmarks>>
       ELSE IF a[2] \notin DOMAIN bookmarks
       THEN Complain("goto: not found") /\ UNCHANGED <<cwd, bookmarks>>
       ELSE IF bookmarks[a[2]] \in dirs
       THEN /\ cwd' = bookmarks[a[2]] /\ Say(<<<<"c","w","d"," ","-",">"," ">> \o bookmarks[a[2]]>>)
            /\ UNCHANGED bookmarks
       ELSE /\ Complain("goto: filesystem error") /\ UNCHANGED cwd
            /\ bookmarks' = MapErase(bookmarks, a[2])

cmd_goto(a) ==
    /\ Returns
    /\ UNCHANGED <<history_buf, alias_map, bookmarks, dirs, files, tailf_file, perms>>
    /\ IF Len(a) < 2 THEN Complain("goto: usage goto <name>") /\ UNCHANGED cwd
       ELSE IF a[2] \notin DOMAIN bookmarks THEN Complain("goto: not found") /\ UNCHANGED cwd
       ELSE IF bookmarks[a[2]] \in dirs
       THEN cwd' = bookmarks[a[2]] /\ Say(<<<<"c","w","d"," ","-",">"," ">> \o bookmarks[a[2]]>>)
       ELSE Complain("goto: filesystem error") /\ UNCHANGED cwd

\* the printable characters in the order of their codes: 32 to 95, 97 to 126
AsciiLow == <<" ","!","\"","#","$","%","&","'","(",")","*","+",",","-",".","/","0","1","2","3","4","5","6","7","8","9",":",";","<","=",">","?","@","A","B","C","D","E","F","G","H","I","J","K","L","M","N","O","P","Q","R","S","T","U","V","W","X","Y","Z","[","\\","]","^","_">>

AsciiHigh == <<"a","b","c","d","e","f","g","h","i","j","k","l","m","n","o","p","q","r","s","t","u","v","w","x","y","z","{","|","}","~">>

\* the value of a char converted to int
CharCode(c) ==
    IF c = "\t" THEN 9
    ELSE IF c = "\n" THEN 10
    ELSE IF \E i \in 1..Len(AsciiLow) : AsciiLow[i] = c
    THEN 31 + (CHOOSE i \in 1..Len(AsciiLow) : AsciiLow[i] = c)
    ELSE 96 + (CHOOSE i \in 1..Len(AsciiHigh) : AsciiHigh[i] = c)

\* x & m for m a power of two, x in two's complement
BitAnd(x, m) == IF (x \div m) % 2 = 1 THEN m ELSE 0

\* the permission digit built from the tests (x & 4), (x & 2), (x & 1)
PermBits(x) == BitAnd(x, 4) + BitAnd(x, 2) + BitAnd(x, 1)

\* lines 447-452: the mode string cut to its last three characters, each
\* turned into a number by subtracting '0'
ModeOf(mode) ==
    LET s1 == IF mode # <<>> /\ mode[1] = "0" THEN SubstrFrom(mode, 1) ELSE mode
        s == IF Len(s1) < 3 THEN [i \in 1..(3 - Len(s1)) |-> "0"] \o s1 ELSE s1
        owner == CharCode(s[Len(s) - 2]) - CharCode("0")
        group == CharCode(s[Len(s) - 1]) - CharCode("0")
        other == CharCode(s[Len(s)]) - CharCode("0")
    IN  <<PermBits(owner), PermBits(group), PermBits(other)>>

\* fs::permissions on a directory changes bits the model does not hold
cmd_chmod(a) ==
    /\ Returns
    /\ UNCHANGED <<history_buf, alias_map, bookmarks, cwd, dirs, files, tailf_file>>
    /\ IF Len(a) < 3 THEN Complain("chmod: usage chmod <octal> <file>") /\ UNCHANGED perms
       ELSE LET target == Resolve(a[3])
            IN  IF target \in files
                THEN perms' = [perms EXCEPT ![target] = ModeOf(a[2])] /\ Say(<<>>)
                ELSE IF target \in dirs THEN Say(<<>>) /\ UNCHANGED perms
                ELSE Complain("chmod: filesystem error") /\ UNCHANGED perms

\* a handler that works through an OS service (listing, process table,
\* archive tool, editor, ...): it returns and leaves history, aliases,
\* bookmarks and the working directory alone.  No input line of the model
\* names one that creates or removes files, so dirs and files stay as well.
os_service ==
    /\ Returns
    /\ UNCHANGED <<history_buf, alias_map, bookmarks, cwd, dirs, files, tailf_file, perms>>
    /\ Say(<<>>)

(***************************************************************************)
(* The interpreter loop of main.                                           *)
(***************************************************************************)
\* the if-chain of lines 904-960, in its order: command name, handler called
\* (`tail` picks between cmd_tailf and cmd_tail by its second token)
BuiltinTable == <<
    <<<<"h","e","l","p">>, "cmd_help">>,
    <<<<"l","s">>, "cmd_ls">>,
    <<<<"p","w","d">>, "cmd_pwd">>,
    <<<<"c","d">>, "cmd_cd">>,
    <<<<"c","a","t">>, "cmd_cat">>,
    <<<<"e","d","i","t">>, "cmd_edit">>,
    <<<<"m","k","d","i","r">>, "cmd_mkdir">>,
    <<<<"r","m">>, "cmd_rm">>,
    <<<<"r","m","d","i","r">>, "cmd_rmdir">>,
    <<<<"t","o","u","c","h">>, "cmd_touch">>,
    <<<<"c","p">>, "cmd_cp">>,
    <<<<"m","v">>, "cmd_mv">>,
    <<<<"f","i","n","d">>, "cmd_find">>,
    <<<<"t","r","e","e">>, "cmd_tree">>,
    <<<<"p","s">>, "cmd_ps">>,
    <<<<"d","f">>, "cmd_df">>,
    <<<<"w","h","o","a","m","i">>, "cmd_whoami">>,
    <<<<"d","a","t","e">>, "cmd_date">>,
    <<<<"c","l","e","a","r">>, "cmd_clear">>,
    <<<<"e","c","h","o">>, "cmd_echo">>,
    <<<<"g","r","e","p">>, "cmd_grep">>,
    <<<<"w","c">>, "cmd_wc">>,
    <<<<"h","e","a","d">>, "cmd_head">>,
    <<<<"t","a","i","l">>, "cmd_tail">>,
    <<<<"c","h","m","o","d">>, "cmd_chmod">>,
    <<<<"l","n">>, "cmd_ln">>,
    <<<<"d","u">>, "cmd_du">>,
    <<<<"s","o","r","t">>, "cmd_sort">>,
    <<<<"u","n","i","q">>, "cmd_uniq">>,
    <<<<"h","i","s","t","o","r","y">>, "cmd_history">>,
    <<<<"w","h","i","c","h">>, "cmd_which">>,
    <<<<"o","p","e","n">>, "cmd_open">>,
    <<<<"e","n","v">>, "cmd_env">>,
    <<<<"s","e","t","e","n","v">>, "cmd_setenv">>,
    <<<<"s","t","a","t">>, "cmd_stat">>,
    <<<<"c","o","u","n","t">>, "cmd_count">>,
    <<<<"a","l","i","a","s">>, "cmd_alias">>,
    <<<<"u","n","a","l","i","a","s">>, "cmd_unalias">>,
    <<<<"a","l","i","a","s","e","s">>, "cmd_aliases">>,
    <<<<"u","p","t","i","m","e">>, "cmd_uptime">>,
    <<<<"p","i","n","g">>, "cmd_ping">>,
    <<<<"h","a","s","h">>, "cmd_hash">>,
    <<<<"c","o","m","p","r","e","s","s">>, "cmd_compress">>,
    <<<<"e","x","t","r","a","c","t">>, "cmd_extract">>,
    <<<<"c","a","l","c">>, "cmd_calc">>,
    <<<<"r","a","n","d","o","m">>, "cmd_random">>,
    <<<<"b","o","o","k","m","a","r","k">>, "cmd_bookmark">>,
    <<<<"b","o","o","k","m","a","r","k","s">>, "cmd_bookmarks">>,
    <<<<"u","n","b","o","o","k","m","a","r","k">>, "cmd_unbookmark">>,
    <<<<"g","o","t","o">>, "cmd_goto">>,
    <<<<"r","e","p","l","a","c","e">>, "cmd_replace">>,
    <<<<"t","o","p">>, "cmd_top">>,
    <<<<"n","e","t">>, "cmd_net">>,
    <<<<"n","o","t","i","f","y">>, "cmd_notify">>
>>

\* the chain without its echo branch
IsBuiltin_without_echo(cmd) ==
    cmd # <<"e","c","h","o">> /\ \E i \in 1..Len(BuiltinTable) : BuiltinTable[i][1] = cmd

IsBuiltin(cmd) == \E i \in 1..Len(BuiltinTable) : BuiltinTable[i][1] = cmd

\* the first branch of the chain whose name equals cmd
HandlerOf(cmd, args) ==
    LET i == CHOOSE k \in 1..Len(BuiltinTable) :
                 /\ BuiltinTable[k][1] = cmd
                 /\ \A j \in 1..(k - 1) : BuiltinTable[j][1] # cmd
        h == BuiltinTable[i][2]
    IN  IF h = "cmd_tail" /\ Len(args) > 1 /\ args[2] = <<"-","f">> THEN "cmd_tailf" ELSE h

Call(h, args) ==
    CASE h = "cmd_cd" -> cmd_cd(args)
      [] h = "cmd_pwd" -> cmd_pwd
      [] h = "cmd_rmdir" -> cmd_rmdir(args)
      [] h = "cmd_touch" -> cmd_touch(args)
      [] h = "cmd_echo" -> cmd_echo(args)
      [] h = "cmd_chmod" -> cmd_chmod(args)
      [] h = "cmd_tail" -> cmd_tail(args)
      [] h = "cmd_tailf" -> cmd_tailf(args)
      [] h = "cmd_history" -> cmd_history(args)
      [] h = "cmd_alias" -> cmd_alias(args)
      [] h = "cmd_unalias" -> cmd_unalias(args)
      [] h = "cmd_ping" -> cmd_ping(args)
      [] h = "cmd_random" -> cmd_random(args)
      [] h = "cmd_bookmark" -> cmd_bookmark(args)
      [] h = "cmd_unbookmark" -> cmd_unbookmark(args)
      [] h = "cmd_goto" -> cmd_goto(args)
      [] OTHER -> os_service

\* the else branch of the chain: the line goes to popen as it is; popen
\* either starts the command or returns NULL
popen_fallback ==
    /\ popen_line' = line
    /\ Returns
    /\ UNCHANGED <<history_buf, alias_map, bookmarks, cwd, dirs, files, tailf_file, perms>>
    /\ \/ Say(<<>>)
       \/ Complain("failed to run")

\* lines 894-897: getline delivers l; an empty line goes back to the prompt,
\* any other line is substituted and pushed onto the history
ReadLine(l) ==
    /\ status = "running" /\ pc = "read"
    /\ nread < MaxLines
    /\ nread' = nread + 1
    /\ raw' = l
    /\ out' = <<>> /\ diag' = "" /\ handler' = "" /\ popen_line' = <<>>
    /\ UNCHANGED <<status, alias_map, bookmarks, cwd, dirs, files, tailf_file, perms>>
    /\ IF l = <<>>
       THEN pc' = "read" /\ UNCHANGED <<line, history_buf>>
       ELSE /\ line' = substitute_aliases(l)
            /\ history_buf' = Append(history_buf, line')
            /\ pc' = "dispatch"

\* line 894: getline fails at end of input and the loop breaks
EndOfInput ==
    /\ status = "running" /\ pc = "read"
    /\ status' = "exited"
    /\ UNCHANGED <<pc, nread, raw, line, history_buf, alias_map, bookmarks, cwd, dirs,
                   files, out, diag, handler, popen_line, tailf_file, perms>>

\* lines 899-967: tokenize the substituted line and run the chain
Dispatch ==
    /\ status = "running" /\ pc = "dispatch"
    /\ pc' = "read"
    /\ UNCHANGED <<nread, raw, line>>
    /\ LET args == split_args(line)
       IN  IF args = <<>>
           THEN UNCHANGED <<status, history_buf, alias_map, bookmarks, cwd, dirs, files,
                            out, diag, handler, popen_line, tailf_file, perms>>
           ELSE IF args[1] \in {<<"e","x","i","t">>, <<"q","u","i","t">>}
           THEN /\ status' = "exited"
                /\ UNCHANGED <<history_buf, alias_map, bookmarks, cwd, dirs, files,
                               out, diag, handler, popen_line, tailf_file, perms>>
           ELSE IF IsBuiltin(args[1])
           THEN /\ handler' = HandlerOf(args[1], args)
                /\ UNCHANGED popen_line
                /\ Call(HandlerOf(args[1], args), args)
           ELSE /\ UNCHANGED handler
                /\ popen_fallback

(***************************************************************************)
(* The session: the lines a user can type, and the initial state.          *)
(***************************************************************************)
\* tokenizer, aliases, history, dispatch and failures
InputLines == {
    <<>>,
    <<" ">>,
    <<"e","c","h","o"," ","a">>,
    <<"e","c","h","o"," ","b">>,
    <<"h","i","s","t","o","r","y">>,
    <<"h","i","s","t","o","r","y"," ","-","c">>,
    <<"a","l","i","a","s"," ","l","l","=","'","l","s"," ","-","l","'">>,
    <<"l","l"," ","/","t","m","p">>,
    <<" ","l","l"," ","/","t","m","p">>,
    <<"r","a","n","d","o","m"," ","a","b","c">>,
    <<"t","a","i","l"," ","-","f"," ","l","o","g">>,
    <<"t","o","u","c","h"," ","-","f">>,
    <<"u","n","a","m","e"," ","-","a">>,
    <<"e","x","i","t">>
}

\* working directory and bookmarks
DirLines == {
    <<"b","o","o","k","m","a","r","k"," ","w">>,
    <<"b","o","o","k","m","a","r","k"," ","v">>,
    <<"u","n","b","o","o","k","m","a","r","k"," ","w">>,
    <<"g","o","t","o"," ","w">>,
    <<"g","o","t","o">>,
    <<"c","d"," ","/","t","m","p">>,
    <<"c","d"," ","/">>,
    <<"r","m","d","i","r"," ","/","t","m","p">>
}

\* complete and incomplete argument lists
ArgLines == {
    <<"c","h","m","o","d"," ","a","b","c"," ","l","o","g">>,
    <<"c","h","m","o","d"," ","6","4","0"," ","l","o","g">>,
    <<"c","h","m","o","d"," ","6","4","0">>,
    <<"a","l","i","a","s"," ","x">>,
    <<"a","l","i","a","s">>,
    <<"c","d">>,
    <<"g","o","t","o">>,
    <<"t","o","u","c","h">>,
    <<"u","n","b","o","o","k","m","a","r","k">>
}

\* aliases that name another alias or themselves
AliasLines == {
    <<"a","l","i","a","s"," ","a","=","b">>,
    <<"a","l","i","a","s"," ","b","=","e","c","h","o">>,
    <<"a","l","i","a","s"," ","c","=","c">>,
    <<"a"," ","x">>,
    <<"b"," ","x">>,
    <<"c">>
}

\* leaving the shell, with aliases for and of exit and quit
ExitLines == {
    <<"a","l","i","a","s"," ","e","x","i","t","=","e","c","h","o">>,
    <<"a","l","i","a","s"," ","q","=","q","u","i","t">>,
    <<"e","x","i","t">>,
    <<" ","e","x","i","t"," ","n","o","w">>,
    <<"q","u","i","t">>,
    <<"q">>,
    <<"e","c","h","o"," ","a">>
}

InitRepl ==
    /\ status = "running" /\ pc = "read" /\ nread = 0
    /\ raw = <<>> /\ line = <<>>
    /\ history_buf = <<>> /\ alias_map = EmptyMap /\ bookmarks = EmptyMap
    /\ dirs = {Root, <<"/","t","m","p">>}
    /\ files = {<<"/","l","o","g">>}
    /\ perms = [f \in files |-> DefaultMode]
    /\ cwd \in dirs
    /\ out = <<>> /\ diag = "" /\ handler = "" /\ popen_line = <<>> /\ tailf_file = <<>>

ReplRead(Lines) == \E l \in Lines : ReadLine(l) /\ UNCHANGED <<followVars, calcVars, toolVars>>

ReplEndOfInput == EndOfInput /\ UNCHANGED <<followVars, calcVars, toolVars>>

ReplDispatch == Dispatch /\ UNCHANGED <<followVars, calcVars, toolVars>>

(***************************************************************************)
(* File follower: cmd_tailf from the successful open on, and a writer that *)
(* appends to the followed file.                                           *)
(***************************************************************************)
MaxFileLen == 4

MaxChunk == 2

TailWindow == 4096

FileAlphabet == {"a", "b", "\n"}

\* the byte strings of length <= n
RECURSIVE BytesUpTo(_)
BytesUpTo(n) ==
    IF n = 0 THEN {<<>>}
    ELSE BytesUpTo(n - 1) \cup {Append(s, c) : s \in {t \in BytesUpTo(n - 1) : Len(t) = n - 1}, c \in FileAlphabet}

\* std::getline(file, line) on the stream state (fbytes, fpos, eofbit, failbit):
\* with eofbit or failbit set the sentry fails and sets failbit; otherwise it
\* extracts up to and including the next '\n' (not stored), or to the end of
\* the file, where it sets eofbit, and failbit too if it extracted nothing.
getline ==
    IF eofbit \/ failbit
    THEN [ok |-> FALSE, text |-> <<>>, pos |-> fpos, eof |-> eofbit, fail |-> TRUE]
    ELSE IF \E i \in (fpos + 1)..Len(fbytes) : fbytes[i] = "\n"
    THEN LET nl == CHOOSE i \in (fpos + 1)..Len(fbytes) :
                       /\ fbytes[i] = "\n"
                       /\ \A j \in (fpos + 1)..(i - 1) : fbytes[j] # "\n"
         IN  [ok |-> TRUE, text |-> SubSeq(fbytes, fpos + 1, nl - 1), pos |-> nl,
              eof |-> FALSE, fail |-> FALSE]
    ELSE IF fpos < Len(fbytes)
    THEN [ok |-> TRUE, text |-> SubSeq(fbytes, fpos + 1, Len(fbytes)), pos |-> Len(fbytes),
          eof |-> TRUE, fail |-> FALSE]
    ELSE [ok |-> FALSE, text |-> <<>>, pos |-> fpos, eof |-> TRUE, fail |-> TRUE]

\* lines 426-427
StartOffset(pos_off) == IF pos_off > TailWindow THEN pos_off - TailWindow ELSE 0

\* `cout << line << '\n'`: the line, with the offset it was read at and the
\* loop that printed it
Emit(g, phase) == emitted' = Append(emitted, [text |-> g.text, at |-> fpos, phase |-> phase])

\* lines 422-429: seek to the end, compute the start offset, clear, seek back
Attach ==
    /\ fpc = "open"
    /\ start_off' = StartOffset(Len(fbytes))
    /\ fpos' = start_off'
    /\ eofbit' = FALSE /\ failbit' = FALSE
    /\ fpc' = "catchup"
    /\ UNCHANGED <<fbytes, emitted>>

\* line 432: one turn of `while (getline(file, line)) cout << line << '\n';`
CatchUp ==
    /\ fpc = "catchup"
    /\ LET g == getline
       IN  /\ fpos' = g.pos /\ eofbit' = g.eof /\ failbit' = g.fail
           /\ IF g.ok THEN Emit(g, "catchup") /\ fpc' = "catchup"
              ELSE UNCHANGED emitted /\ fpc' = "follow"
    /\ UNCHANGED <<fbytes, start_off>>

\* lines 435-440: one getline of the follow loop
FollowRead ==
    /\ fpc = "follow"
    /\ LET g == getline
       IN  /\ fpos' = g.pos /\ eofbit' = g.eof /\ failbit' = g.fail
           /\ IF g.ok THEN Emit(g, "follow") /\ fpc' = "follow"
              ELSE UNCHANGED emitted /\ fpc' = "sleep"
    /\ UNCHANGED <<fbytes, start_off>>

\* lines 436-437: the sleep ends and file.clear() resets the state bits
Wake ==
    /\ fpc = "sleep"
    /\ eofbit' = FALSE /\ failbit' = FALSE
    /\ fpc' = "follow"
    /\ UNCHANGED <<fbytes, fpos, start_off, emitted>>

\* another process appends bytes to the file
WriterAppend(chunk) ==
    /\ fpc # "idle"
    /\ Len(fbytes) + Len(chunk) <= MaxFileLen
    /\ fbytes' = fbytes \o chunk
    /\ UNCHANGED <<fpos, start_off, eofbit, failbit, fpc, emitted>>

FollowIdle ==
    /\ fbytes = <<>> /\ fpos = 0 /\ start_off = 0
    /\ eofbit = FALSE /\ failbit = FALSE /\ fpc = "idle" /\ emitted = <<>>

\* the file as it is when cmd_tailf has opened it
InitFollow ==
    /\ fbytes \in BytesUpTo(MaxFileLen - 1)
    /\ fpos = 0 /\ start_off = 0
    /\ eofbit = FALSE /\ failbit = FALSE /\ fpc = "open" /\ emitted = <<>>

(***************************************************************************)
(* Expression evaluator.  A double is modelled as an exact signed fraction *)
(* [s, n, d]: s is the sign (1 or -1), n/d the magnitude; d = 0 encodes    *)
(* the special values, 1/0 an infinity and 0/0 a NaN.  Zero keeps its      *)
(* sign, as in IEEE 754.  Rounding and overflow are not modelled.          *)
(***************************************************************************)
RECURSIVE GCD(_, _)
GCD(a, b) == IF b = 0 THEN a ELSE GCD(b, a % b)

NaN == [s |-> 1, n |-> 0, d |-> 0]

IsNaN(x) == x.n = 0 /\ x.d = 0

IsInf(x) == x.n # 0 /\ x.d = 0

Dbl(s, n, d) ==
    IF d = 0 THEN (IF n = 0 THEN NaN ELSE [s |-> s, n |-> 1, d |-> 0])
    ELSE IF n = 0 THEN [s |-> s, n |-> 0, d |-> 1]
    ELSE [s |-> s, n |-> n \div GCD(n, d), d |-> d \div GCD(n, d)]

\* the double of an integer literal
FromInt(k) == IF k < 0 THEN Dbl(-1, 0 - k, 1) ELSE Dbl(1, k, 1)

DblNeg(x) == IF IsNaN(x) THEN x ELSE [x EXCEPT !.s = 0 - x.s]

DblMul(x, y) ==
    IF IsNaN(x) \/ IsNaN(y) THEN NaN
    ELSE Dbl(x.s * y.s, x.n * y.n, x.d * y.d)

DblDiv(x, y) ==
    IF IsNaN(x) \/ IsNaN(y) THEN NaN
    ELSE Dbl(x.s * y.s, x.n * y.d, x.d * y.n)

DblAdd(x, y) ==
    IF IsNaN(x) \/ IsNaN(y) THEN NaN
    ELSE IF IsInf(x) /\ IsInf(y) THEN (IF x.s = y.s THEN x ELSE NaN)
    ELSE IF IsInf(x) THEN x
    ELSE IF IsInf(y) THEN y
    ELSE LET num == x.s * x.n * y.d + y.s * y.n * x.d
         IN  IF num = 0
             THEN Dbl(IF x.n = 0 /\ y.n = 0 /\ x.s = -1 /\ y.s = -1 THEN -1 ELSE 1, 0, 1)
             ELSE IF num < 0 THEN Dbl(-1, 0 - num, x.d * y.d)
             ELSE Dbl(1, num, x.d * y.d)

DblSub(x, y) == DblAdd(x, DblNeg(y))

\* *expr_ptr at the 1-based position p; "" is the terminating NUL
CharAt(s, p) == IF p <= Len(s) THEN s[p] ELSE ""

\* strtod stepping over a character it cannot convert
strtod_skipping(s, p) ==
    LET i == SkipSpaces(s, p)
        signed == CharAt(s, i) \in {"+", "-"}
        d == IF signed THEN i + 1 ELSE i
        e == DigitRunEnd(s, d)
        mag == DigitsValue(s, d, e - 1)
    IN  IF e = d THEN [val |-> FromInt(0), end |-> p + 1]
        ELSE [val |-> Dbl(IF signed /\ s[i] = "-" THEN -1 ELSE 1, mag, 1), end |-> e]

\* strtod(expr_ptr, &end) over decimal integers: leading whitespace, an
\* optional sign, digits.  With no digit nothing is converted and end is the
\* start pointer.
strtod(s, p) ==
    LET i == SkipSpaces(s, p)
        signed == CharAt(s, i) \in {"+", "-"}
        d == IF signed THEN i + 1 ELSE i
        e == DigitRunEnd(s, d)
        mag == DigitsValue(s, d, e - 1)
    IN  IF e = d THEN [val |-> FromInt(0), end |-> p]
        ELSE [val |-> Dbl(IF signed /\ s[i] = "-" THEN -1 ELSE 1, mag, 1), end |-> e]

RECURSIVE parse_expression(_, _)
RECURSIVE expression_loop(_, _, _)
RECURSIVE term_loop(_, _, _)

\* parse_number losing the sign in front of a parenthesis
parse_number_unsigned_paren(s, p) ==
    LET p1 == SkipSpaces(s, p)
        sign == IF CharAt(s, p1) = "-" THEN FromInt(-1) ELSE FromInt(1)
        p2 == IF CharAt(s, p1) \in {"+", "-"} THEN p1 + 1 ELSE p1
        p3 == SkipSpaces(s, p2)
    IN  IF CharAt(s, p3) = "("
        THEN LET r == parse_expression(s, p3 + 1)
             IN  [v |-> r.v,
                  p |-> IF CharAt(s, r.p) = ")" THEN r.p + 1 ELSE r.p]
        ELSE LET t == strtod(s, p3)
             IN  IF t.end = p3 THEN [v |-> FromInt(0), p |-> p3]
                 ELSE [v |-> DblMul(sign, t.val), p |-> t.end]

\* each parse function takes the string and the cursor and returns the value
\* with the cursor it leaves in expr_ptr
parse_number(s, p) ==
    LET p1 == SkipSpaces(s, p)
        sign == IF CharAt(s, p1) = "-" THEN FromInt(-1) ELSE FromInt(1)
        p2 == IF CharAt(s, p1) \in {"+", "-"} THEN p1 + 1 ELSE p1
        p3 == SkipSpaces(s, p2)
    IN  IF CharAt(s, p3) = "("
        THEN LET r == parse_expression(s, p3 + 1)
             IN  [v |-> DblMul(sign, r.v),
                  p |-> IF CharAt(s, r.p) = ")" THEN r.p + 1 ELSE r.p]
        ELSE LET t == strtod(s, p3)
             IN  IF t.end = p3 THEN [v |-> FromInt(0), p |-> p3]
                 ELSE [v |-> DblMul(sign, t.val), p |-> t.end]

\* the while (true) of parse_term, entered with the value v so far
term_loop(s, v, p) ==
    LET q == SkipSpaces(s, p)
    IN  IF CharAt(s, q) = "*"
        THEN LET r == parse_number(s, q + 1) IN term_loop(s, DblMul(v, r.v), r.p)
        ELSE IF CharAt(s, q) = "/"
        THEN LET r == parse_number(s, q + 1) IN term_loop(s, DblDiv(v, r.v), r.p)
        ELSE [v |-> v, p |-> q]

parse_term(s, p) ==
    LET r == parse_number(s, p) IN term_loop(s, r.v, r.p)

\* the while (true) of parse_expression
expression_loop(s, v, p) ==
    LET q == SkipSpaces(s, p)
    IN  IF CharAt(s, q) = "+"
        THEN LET r == parse_term(s, q + 1) IN expression_loop(s, DblAdd(v, r.v), r.p)
        ELSE IF CharAt(s, q) = "-"
        THEN LET r == parse_term(s, q + 1) IN expression_loop(s, DblSub(v, r.v), r.p)
        ELSE [v |-> v, p |-> q]

parse_expression(s, p) ==
    LET r == parse_term(s, p) IN expression_loop(s, r.v, r.p)

(***************************************************************************)
(* Well-formed expressions, as syntax trees of the grammar                 *)
(*   expression := term (('+'|'-') term)*                                  *)
(*   term       := number (('*'|'/') number)*                              *)
(*   number     := [sign] ( '(' expression ')' | literal )                 *)
(* An expression is a sequence of [op, term] (the first op is ""), a term  *)
(* a sequence of [op, num] (the first op is ""), a number a record with a  *)
(* sign and either a literal or an inner expression.                       *)
(***************************************************************************)
MaxLit == 4

Signs == {"", "-"}

\* the signed literals 2..m, and the same with a two-digit literal added
LitNumbers(m) == {[sign |-> sg, kind |-> "lit", val |-> v, inner |-> <<>>] : sg \in Signs, v \in 2..m}

WideNumbers(m) ==
    {[sign |-> sg, kind |-> "lit", val |-> v, inner |-> <<>>] : sg \in Signs, v \in (2..m) \cup {12}}

\* terms of one, two and three factors
Terms1(NS) == {<<[op |-> "", num |-> n]>> : n \in NS}

Terms2(NS, MS) == {<<[op |-> "", num |-> n], [op |-> o, num |-> m]>> : n \in NS, m \in MS, o \in {"*", "/"}}

Terms3(NS) ==
    {Append(t, [op |-> o, num |-> m]) : t \in Terms2(NS, NS), m \in NS, o \in {"*", "/"}}

\* expressions of one, two and three terms
Exprs1(TS) == {<<[op |-> "", term |-> t]>> : t \in TS}

Exprs2(TS, US) == {<<[op |-> "", term |-> t], [op |-> o, term |-> u]>> : t \in TS, u \in US, o \in {"+", "-"}}

Exprs3(TS) ==
    {Append(e, [op |-> o, term |-> u]) : e \in Exprs2(TS, TS), u \in TS, o \in {"+", "-"}}

\* the expressions with two literals from NS and no parenthesis
FlatExprs2(NS) == Exprs1(Terms2(NS, NS)) \cup Exprs2(Terms1(NS), Terms1(NS))

\* the expressions with three literals from NS and no parenthesis
FlatExprs3(NS) ==
    Exprs1(Terms3(NS))
    \cup Exprs2(Terms2(NS, NS), Terms1(NS))
    \cup Exprs2(Terms1(NS), Terms2(NS, NS))
    \cup Exprs3(Terms1(NS))

\* a signed parenthesis around a two-literal expression over NS
ParenNumbers(NS) == {[sign |-> sg, kind |-> "paren", val |-> 0, inner |-> e] : sg \in Signs, e \in FlatExprs2(NS)}

\* a parenthesis over IS alone, or combined with one number of NS on either side
ParenExprs(IS, NS) ==
    Exprs1(Terms1(ParenNumbers(IS)))
    \cup Exprs1(Terms2(ParenNumbers(IS), NS)) \cup Exprs1(Terms2(NS, ParenNumbers(IS)))
    \cup Exprs2(Terms1(ParenNumbers(IS)), Terms1(NS))
    \cup Exprs2(Terms1(NS), Terms1(ParenNumbers(IS)))

\* the unsigned literals 2..m
PlainNumbers(m) == {n \in LitNumbers(m) : n.sign = ""}

\* the trees of the model: up to two signed literals out of 2..m and 12,
\* three signed literals out of 2..m, and a signed parenthesis around two
\* unsigned literals, alone or with a signed literal on either side
Trees(m) ==
    Exprs1(Terms1(WideNumbers(m))) \cup FlatExprs2(WideNumbers(m))
    \cup FlatExprs3(LitNumbers(m)) \cup ParenExprs(PlainNumbers(m), LitNumbers(m))

\* the value the grammar gives, over the integers: * and / fold the numbers
\* of a term from the left, + and - fold the terms from the left
RECURSIVE ExprValue(_, _)
NumberValue(n) ==
    (IF n.sign = "-" THEN -1 ELSE 1) * (IF n.kind = "lit" THEN n.val ELSE ExprValue(n.inner, Len(n.inner)))

RECURSIVE TermValue(_, _)
TermValue(t, k) ==
    IF k = 1 THEN NumberValue(t[1].num)
    ELSE IF t[k].op = "*" THEN TermValue(t, k - 1) * NumberValue(t[k].num)
    ELSE TermValue(t, k - 1) \div NumberValue(t[k].num)

ExprValue(e, k) ==
    IF k = 1 THEN TermValue(e[1].term, Len(e[1].term))
    ELSE IF e[k].op = "+" THEN ExprValue(e, k - 1) + TermValue(e[k].term, Len(e[k].term))
    ELSE ExprValue(e, k - 1) - TermValue(e[k].term, Len(e[k].term))

Abs(k) == IF k < 0 THEN 0 - k ELSE k

\* every division of the tree has a nonzero divisor and no remainder
RECURSIVE ExprExact(_)
NumberExact(n) == n.kind = "lit" \/ ExprExact(n.inner)

TermExact(t) ==
    \A k \in 1..Len(t) :
        /\ NumberExact(t[k].num)
        /\ t[k].op = "/" =>
               /\ NumberValue(t[k].num) # 0
               /\ TermValue(t, k - 1) % Abs(NumberValue(t[k].num)) = 0

ExprExact(e) == \A k \in 1..Len(e) : TermExact(e[k].term)

\* the text of a tree.  Style "compact" writes no blank, "spaced" writes one
\* around every operator, sign and parenthesis, "plus" is compact with an
\* explicit + in front of every unsigned number.
Styles == {"compact", "spaced", "plus"}

Chr(c) == IF c = "" THEN <<>> ELSE <<c>>

Pad(style) == IF style = "spaced" THEN <<" ">> ELSE <<>>

RECURSIVE RenderExpr(_, _, _)
RenderNumber(n, style) ==
    (IF n.sign = "" /\ style = "plus" THEN <<"+">> ELSE Chr(n.sign) \o (IF n.sign = "" THEN <<>> ELSE Pad(style)))
    \o (IF n.kind = "lit" THEN to_string(n.val)
        ELSE <<"(">> \o Pad(style) \o RenderExpr(n.inner, Len(n.inner), style) \o Pad(style) \o <<")">>)

RECURSIVE RenderTerm(_, _, _)
RenderTerm(t, k, style) ==
    IF k = 1 THEN RenderNumber(t[1].num, style)
    ELSE RenderTerm(t, k - 1, style) \o Pad(style) \o <<t[k].op>> \o Pad(style) \o RenderNumber(t[k].num, style)

RenderExpr(e, k, style) ==
    IF k = 1 THEN RenderTerm(e[1].term, Len(e[1].term), style)
    ELSE RenderExpr(e, k - 1, style) \o Pad(style) \o <<e[k].op>> \o Pad(style)
         \o RenderTerm(e[k].term, Len(e[k].term), style)

WellFormed(m) == {e \in Trees(m) : ExprExact(e)}

NoTree == <<>>

(***************************************************************************)
(* cmd_calc on an expression argument.                                     *)
(***************************************************************************)
\* lines 757-760: point expr_ptr at the argument and evaluate it
cmd_calc ==
    /\ calc_pc = "ready"
    /\ LET r == parse_expression(expr, 1)
       IN  calc_res' = r.v /\ expr_ptr' = r.p - 1
    /\ calc_pc' = "done"
    /\ UNCHANGED <<expr, expr_tree>>

CalcIdle == expr = <<>> /\ expr_tree = NoTree /\ expr_ptr = 0 /\ calc_pc = "idle" /\ calc_res = FromInt(0)

InitCalc ==
    /\ \E e \in WellFormed(MaxLit), style \in Styles :
           expr = RenderExpr(e, Len(e), style) /\ expr_tree = e
    /\ expr_ptr = 0 /\ calc_pc = "ready" /\ calc_res = FromInt(0)

(***************************************************************************)
(* cmd_calc on any short string, well-formed or not.                       *)
(***************************************************************************)
MaxExprLen == 4

ExprAlphabet == {"1", "-", "/", "(", ")", " ", "x"}

RECURSIVE ExprStringsUpTo(_)
ExprStringsUpTo(n) ==
    IF n = 0 THEN {<<>>}
    ELSE LET shorter == ExprStringsUpTo(n - 1)
         IN  shorter \cup {Append(s, c) : s \in {t \in shorter : Len(t) = n - 1}, c \in ExprAlphabet}

InitCalcAny ==
    /\ expr \in ExprStringsUpTo(MaxExprLen) /\ expr_tree = NoTree
    /\ expr_ptr = 0 /\ calc_pc = "ready" /\ calc_res = FromInt(0)

(***************************************************************************)
(* split_args on its own: the input is any short string over the           *)
(* characters the tokenizer tells apart, or one of the named examples.     *)
(***************************************************************************)
MaxTokLen == 5

TokAlphabet == {"a", "\"", "'", " ", "\t"}

RECURSIVE StringsUpTo(_)
StringsUpTo(n) ==
    IF n = 0 THEN {<<>>}
    ELSE LET shorter == StringsUpTo(n - 1)
         IN  shorter \cup {Append(s, c) : s \in {t \in shorter : Len(t) = n - 1}, c \in TokAlphabet}

TokExamples == {<<"l","s"," ","-","l"," ","\"","m","y"," ","d","i","r","\"">>, <<"e","c","h","o"," ","'","a"," "," ","b","'"," ","c">>, <<"s","a","y"," ","\"","i","t","'","s"," ","a","\""," ","'","x">>}

\* the token sequence joined by single spaces
RECURSIVE JoinTokens(_)
JoinTokens(T) ==
    IF T = <<>> THEN <<>>
    ELSE IF Len(T) = 1 THEN T[1]
    ELSE T[1] \o <<" ">> \o JoinTokens(Tail(T))

TokIdle == tok_pc = "idle" /\ tok_in = <<>> /\ tok_out = <<>> /\ tok_re = <<>>

InitTok ==
    /\ tok_pc = "ready"
    /\ tok_in \in StringsUpTo(MaxTokLen) \cup TokExamples
    /\ tok_out = <<>> /\ tok_re = <<>>

\* split_args(tok_in)
Tokenize ==
    /\ tok_pc = "ready"
    /\ tok_out' = split_args(tok_in)
    /\ tok_pc' = "split"
    /\ UNCHANGED <<tok_in, tok_re>>

\* split_args of the tokens written out again with single spaces
Retokenize ==
    /\ tok_pc = "split"
    /\ tok_re' = split_args(JoinTokens(tok_out))
    /\ tok_pc' = "again"
    /\ UNCHANGED <<tok_in, tok_out>>

(***************************************************************************)
(* cmd_replace, statement by statement.  The filesystem is the map disk     *)
(* from paths to contents; an ofstream can open the paths in writable and   *)
(* fails on every other one (the stream then ignores what is written to it  *)
(* and nothing is thrown).                                                  *)
(***************************************************************************)
MaxText == 3

\* the length at which the string gives up growing (length_error / bad_alloc)
MaxSize == 6

RECURSIVE TextsUpTo(_)
TextsUpTo(n) ==
    IF n = 0 THEN {<<>>}
    ELSE LET shorter == TextsUpTo(n - 1)
         IN  shorter \cup {Append(s, c) : s \in {t \in shorter : Len(t) = n - 1}, c \in {"a", "b"}}

ReplaceLines == {
    <<"r","e","p","l","a","c","e"," ","f"," ","a"," ","b">>,
    <<"r","e","p","l","a","c","e"," ","f"," ","a"," ","a","a">>,
    <<"r","e","p","l","a","c","e"," ","f"," ","a","b"," ","\"","\"">>,
    <<"r","e","p","l","a","c","e"," ","f"," ","\"","\""," ","b">>,
    <<"r","e","p","l","a","c","e"," ","f"," ","\"","\""," ","\"","\"">>,
    <<"r","e","p","l","a","c","e"," ","f"," ","a">>
}

\* s.find(t, pos): the first position >= pos at which t stands in s
find_str(s, t, pos) ==
    LET hits == {i \in pos..(Len(s) - Len(t)) : SubSeq(s, i + 1, i + Len(t)) = t}
    IN  IF hits = {} THEN npos ELSE CHOOSE i \in hits : \A j \in hits : i <= j

\* s.replace(pos, n, t)
replace_at(s, pos, n, t) == SubSeq(s, 1, pos) \o t \o SubstrFrom(s, Min(pos + n, Len(s)))

ReplaceIdle ==
    /\ rp_pc = "idle" /\ disk = EmptyMap /\ writable = {}
    /\ rp_args = <<>> /\ rp_file = <<>> /\ rp_old = <<>> /\ rp_new = <<>>
    /\ rp_orig = <<>> /\ rp_content = <<>> /\ rp_pos = 0 /\ rp_diag = ""

\* the call: any of the lines, the file f present with a short content or
\* missing, a backup of an earlier run present or not
InitReplace ==
    /\ rp_pc = "called"
    /\ rp_args \in {split_args(l) : l \in ReplaceLines}
    /\ \E present \in SUBSET {<<"f">>, <<"f",".","b","a","k">>} :
          disk \in [present -> TextsUpTo(MaxText)]
    /\ <<"f",".","b","a","k">> \in DOMAIN disk => disk[<<"f",".","b","a","k">>] = <<"b">>
    /\ writable \in SUBSET {<<"f">>, <<"f",".","b","a","k">>}
    /\ rp_file = <<>> /\ rp_old = <<>> /\ rp_new = <<>>
    /\ rp_orig = <<>> /\ rp_content = <<>> /\ rp_pos = 0 /\ rp_diag = ""

\* lines 804-810: the usage test, the locals, the ifstream and the read
ReplaceOpen ==
    /\ rp_pc = "called"
    /\ UNCHANGED <<disk, writable, rp_args, rp_pos>>
    /\ IF Len(rp_args) < 4
       THEN /\ rp_diag' = "replace: usage replace <file> <old> <new>"
            /\ rp_pc' = "returned"
            /\ UNCHANGED <<rp_file, rp_old, rp_new, rp_orig, rp_content>>
       ELSE /\ rp_file' = rp_args[2] /\ rp_old' = rp_args[3] /\ rp_new' = rp_args[4]
            /\ IF rp_args[2] \notin DOMAIN disk
               THEN /\ rp_diag' = "replace: cannot open file"
                    /\ rp_pc' = "returned"
                    /\ UNCHANGED <<rp_orig, rp_content>>
               ELSE /\ rp_content' = disk[rp_args[2]]
                    /\ rp_orig' = disk[rp_args[2]]
                    /\ rp_pc' = "read"
                    /\ UNCHANGED rp_diag

\* lines 811-815: the backup is written, when its ofstream could be opened
ReplaceBackup ==
    /\ rp_pc = "read"
    /\ LET bak == rp_file \o <<".","b","a","k">>
       IN  disk' = IF bak \in writable THEN MapPut(disk, bak, rp_content) ELSE disk
    /\ rp_pos' = 0
    /\ rp_pc' = "find"
    /\ UNCHANGED <<writable, rp_args, rp_file, rp_old, rp_new, rp_orig, rp_content, rp_diag>>

\* line 816: the loop test
ReplaceFind ==
    /\ rp_pc = "find"
    /\ rp_pos' = find_str(rp_content, rp_old, rp_pos)
    /\ rp_pc' = IF rp_pos' = npos THEN "edited" ELSE "subst"
    /\ UNCHANGED <<disk, writable, rp_args, rp_file, rp_old, rp_new, rp_orig, rp_content, rp_diag>>

\* lines 817-818: the loop body; a string that cannot grow any more throws,
\* and the catch of line 824 reports it
ReplaceSubst ==
    /\ rp_pc = "subst"
    /\ UNCHANGED <<disk, writable, rp_args, rp_file, rp_old, rp_new, rp_orig>>
    /\ IF Len(rp_content) - Len(rp_old) + Len(rp_new) > MaxSize
       THEN /\ rp_diag' = "replace: exception"
            /\ rp_pc' = "returned"
            /\ UNCHANGED <<rp_content, rp_pos>>
       ELSE /\ rp_content' = replace_at(rp_content, rp_pos, Len(rp_old), rp_new)
            /\ rp_pos' = rp_pos + Len(rp_new)
            /\ rp_pc' = "find"
            /\ UNCHANGED rp_diag

\* line 820: the ofstream on the file itself: opening truncates the file
ReplaceTruncate ==
    /\ rp_pc = "edited"
    /\ IF rp_file \in writable
       THEN disk' = MapPut(disk, rp_file, <<>>) /\ rp_pc' = "writing"
       ELSE UNCHANGED disk /\ rp_pc' = "write_failed"
    /\ UNCHANGED <<writable, rp_args, rp_file, rp_old, rp_new, rp_orig, rp_content, rp_pos, rp_diag>>

\* lines 821-823: the content goes out and the command reports success,
\* whether the stream was open or not
ReplaceStore ==
    /\ rp_pc \in {"writing", "write_failed"}
    /\ disk' = IF rp_pc = "writing" THEN MapPut(disk, rp_file, rp_content) ELSE disk
    /\ rp_pc' = "stored"
    /\ UNCHANGED <<writable, rp_args, rp_file, rp_old, rp_new, rp_orig, rp_content, rp_pos, rp_diag>>

ToolsIdle == TokIdle /\ ReplaceIdle

(***************************************************************************)
(* Helpers of the properties.                                              *)
(***************************************************************************)
\* the tokens of the line the loop holds
LineArgs == split_args(line)

\* the state right after the dispatch chain called handler h
JustRan(h) == pc = "read" /\ handler = h

\* the step in which the dispatch chain runs the command named name
IsDispatchOf(name) ==
    /\ pc = "dispatch" /\ pc' = "read"
    /\ LineArgs # <<>> /\ LineArgs[1] = name

\* s is an initial segment of t
IsPrefixOf(s, t) == Len(s) <= Len(t) /\ SubSeq(t, 1, Len(s)) = s

\* the lines of a byte string: the segments ended by '\n', and the unended
\* rest when it is not empty
RECURSIVE LinesOf(_)
LinesOf(bytes) ==
    IF bytes = <<>> THEN <<>>
    ELSE IF \E i \in 1..Len(bytes) : bytes[i] = "\n"
    THEN LET nl == find(bytes, "\n") + 1
         IN  <<SubSeq(bytes, 1, nl - 1)>> \o LinesOf(SubSeq(bytes, nl + 1, Len(bytes)))
    ELSE <<bytes>>

EmittedTexts == [i \in 1..Len(emitted) |-> emitted[i].text]

\* text is a whole line of the file lying at offset at: it starts at the
\* replay start or right after a '\n', and the byte after it is a '\n'
WholeLineAt(at, text) ==
    /\ at = start_off \/ fbytes[at] = "\n"
    /\ Len(fbytes) >= at + Len(text) + 1
    /\ SubSeq(fbytes, at + 1, at + Len(text)) = text
    /\ fbytes[at + Len(text) + 1] = "\n"

\* the end (1-based, exclusive) of the k-th whitespace-delimited word of l from p
RECURSIVE SkipNonSpaces(_, _)
SkipNonSpaces(s, i) == IF i <= Len(s) /\ ~IsSpace(s[i]) THEN SkipNonSpaces(s, i + 1) ELSE i

RECURSIVE AfterWords(_, _, _)
AfterWords(l, p, k) ==
    IF k = 0 THEN p ELSE AfterWords(l, SkipNonSpaces(l, SkipSpaces(l, p)), k - 1)

\* the number of whitespace-delimited words the first token of l is made of
FirstTokenWords(l) ==
    LET ws == Words(l)
    IN  IF OpensQuote(ws[1]) THEN AbsorbQuoted(ws, 2, ws[1], Front(ws[1])).next - 1 ELSE 1

\* the part of l strictly after the whitespace run that follows its first token
RestAfterFirstToken(l) ==
    SubstrFrom(l, SkipSpaces(l, AfterWords(l, 1, FirstTokenWords(l))) - 1)

\* the numbered listing of a history
Listing(h) == [i \in 1..Len(h) |-> to_string(i) \o <<" "," ">> \o h[i]]

\* x is the integer k (a zero of either sign is 0)
NumEq(x, k) == x.d = 1 /\ x.s * x.n = k

(***************************************************************************)
(* Properties.                                                             *)
(***************************************************************************)

\* C1: for an input line [tail, -f, F] the follower opens and follows F, and
\* the open fails with the I/O diagnostic only when F cannot be opened.
C1_FollowerOpensNamedFile ==
    (JustRan("cmd_tailf") /\ Len(LineArgs) = 3) =>
        LET F == Resolve(LineArgs[3])
        IN  /\ status = "following" => tailf_file = F
            /\ diag = "tail -f: cannot open file" => F \notin files

\* C2: no command failure ends the interpreter loop: the loop is left only by
\* exit/quit or end of input (or stays in a blocking tail -f), never by an
\* error escaping a handler.
C2_NoFailureEndsLoop == status \in {"running", "exited", "following"}

\* C3: with a writer that only appends, the lines emitted over catch-up and
\* follow are, in file order, the lines of the file from the start offset:
\* none twice, none skipped.
C3_EmittedAreTheFileLines ==
    fpc \in {"catchup", "follow", "sleep"} =>
        /\ IsPrefixOf(EmittedTexts, LinesOf(SubstrFrom(fbytes, start_off)))
        /\ fpos = Len(fbytes) => EmittedTexts = LinesOf(SubstrFrom(fbytes, start_off))

\* C4: in follow state every emitted line is a whole line of the file, the
\* bytes between two consecutive newlines, however the writer splits its
\* writes.
C4_FollowEmitsWholeLines ==
    \A i \in 1..Len(emitted) :
        emitted[i].phase = "follow" => WholeLineAt(emitted[i].at, emitted[i].text)

\* C5: after the line alias ll='ls -l' the alias table maps ll to ls -l, and
\* a later line ll /tmp becomes ls -l /tmp and goes to the ls built-in.
C5_QuotedAliasDefinition ==
    /\ (JustRan("cmd_alias") /\ raw = <<"a","l","i","a","s"," ","l","l","=","'","l","s"," ","-","l","'">>) =>
           /\ <<"l","l">> \in DOMAIN alias_map
           /\ alias_map[<<"l","l">>] = <<"l","s"," ","-","l">>
    /\ (pc = "read" /\ status = "running" /\ raw = <<"l","l"," ","/","t","m","p">> /\ <<"l","l">> \in DOMAIN alias_map) =>
           /\ line = <<"l","s"," ","-","l"," ","/","t","m","p">>
           /\ handler = "cmd_ls"

\* C6: a line whose first token is an alias key becomes the replacement text,
\* a single space and the rest of the line after the whitespace run that
\* follows the first token (no space when the rest is empty); any other line
\* is unchanged.
C6_SubstitutionKeepsRest ==
    pc = "dispatch" =>
        LET args == split_args(raw)
        IN  IF args # <<>> /\ args[1] \in DOMAIN alias_map
            THEN line = alias_map[args[1]]
                        \o (IF RestAfterFirstToken(raw) = <<>> THEN <<>>
                            ELSE <<" ">> \o RestAfterFirstToken(raw))
            ELSE line = raw

\* C7: reading a line adds exactly one history entry, the substituted text,
\* when the line has at least one token, and no entry when it has none.
C7_HistoryOnlyTokenizedLines ==
    [][nread' = nread + 1 =>
           IF split_args(raw') # <<>>
           THEN history_buf' = Append(history_buf, line')
           ELSE history_buf' = history_buf]_vars

C9_EvaluatorFollowsGrammar ==
    (calc_pc = "done" /\ expr_tree # NoTree) =>
        /\ NumEq(calc_res, ExprValue(expr_tree, Len(expr_tree)))
        /\ expr_ptr = Len(expr)

C9_Witness ==
    /\ calc_pc = "done"
    /\ expr = <<"2"," ","+"," ","3"," ","*"," ","4">>
    /\ calc_res = FromInt(14)

\* C10: bookmark N binds N to the working directory of that moment; no
\* command other than bookmark N and unbookmark N changes the binding; and
\* goto N, when the bound directory still exists, makes it the working
\* directory and leaves the bookmark table as it is.
C10_GotoRestoresBookmarkedDir ==
    [][/\ \A N \in DOMAIN bookmarks :
              (~(IsDispatchOf(<<"b","o","o","k","m","a","r","k">>) \/ IsDispatchOf(<<"u","n","b","o","o","k","m","a","r","k">>))
               \/ Len(LineArgs) < 2 \/ LineArgs[2] # N) =>
                  (N \in DOMAIN bookmarks' /\ bookmarks'[N] = bookmarks[N])
       /\ (IsDispatchOf(<<"b","o","o","k","m","a","r","k">>) /\ Len(LineArgs) >= 2 /\ cwd \in dirs) =>
              (LineArgs[2] \in DOMAIN bookmarks' /\ bookmarks'[LineArgs[2]] = cwd)
       /\ (/\ IsDispatchOf(<<"g","o","t","o">>) /\ Len(LineArgs) >= 2
           /\ LineArgs[2] \in DOMAIN bookmarks
           /\ bookmarks[LineArgs[2]] \in dirs) =>
              (cwd' = bookmarks[LineArgs[2]] /\ bookmarks' = bookmarks)
      ]_vars

\* bookmark w in /tmp, cd /, goto w: back in /tmp
C10_Witness ==
    /\ JustRan("cmd_goto")
    /\ history_buf = <<<<"b","o","o","k","m","a","r","k"," ","w">>, <<"c","d"," ","/">>, <<"g","o","t","o"," ","w">>>>
    /\ <<"w">> \in DOMAIN bookmarks /\ bookmarks[<<"w">>] = <<"/","t","m","p">>
    /\ cwd = <<"/","t","m","p">>

\* C11: goto N with N missing from the bookmark table, or bound to a
\* directory that no longer exists, reports a diagnostic and leaves the
\* working directory and the bookmark table as they are, and the loop goes
\* on; removing a directory leaves the bookmarks bound to it in the table, so
\* a stale bookmark is found out by goto only.
C11_GotoFailsWithoutChange ==
    [][/\ (/\ IsDispatchOf(<<"g","o","t","o">>) /\ Len(LineArgs) >= 2
           /\ \/ LineArgs[2] \notin DOMAIN bookmarks
              \/ bookmarks[LineArgs[2]] \notin dirs) =>
              /\ diag' # "" /\ out' = <<>>
              /\ cwd' = cwd /\ bookmarks' = bookmarks
              /\ status' = "running" /\ pc' = "read"
       /\ (IsDispatchOf(<<"r","m","d","i","r">>) \/ IsDispatchOf(<<"c","d">>)) => bookmarks' = bookmarks
      ]_vars

\* bookmark w in /tmp, rmdir /tmp, goto w: the stale entry is still there
C11_Witness ==
    /\ JustRan("cmd_goto")
    /\ history_buf = <<<<"b","o","o","k","m","a","r","k"," ","w">>, <<"r","m","d","i","r"," ","/","t","m","p">>, <<"g","o","t","o"," ","w">>>>
    /\ diag = "goto: filesystem error"
    /\ <<"w">> \in DOMAIN bookmarks /\ bookmarks[<<"w">>] = <<"/","t","m","p">>
    /\ <<"/","t","m","p">> \notin dirs
    /\ status = "running"

\* the least number of tokens the handler of a built-in asks for
MinTokens == {<<<<"c","d">>, 2>>, <<<<"r","m","d","i","r">>, 2>>, <<<<"t","o","u","c","h">>, 2>>, <<<<"t","a","i","l">>, 2>>,
              <<<<"c","h","m","o","d">>, 3>>, <<<<"a","l","i","a","s">>, 2>>, <<<<"u","n","a","l","i","a","s">>, 2>>, <<<<"p","i","n","g">>, 2>>,
              <<<<"b","o","o","k","m","a","r","k">>, 2>>, <<<<"u","n","b","o","o","k","m","a","r","k">>, 2>>, <<<<"g","o","t","o">>, 2>>}

IsOctal(s) == s # <<>> /\ \A i \in 1..Len(s) : s[i] \in {"0", "1", "2", "3", "4", "5", "6", "7"}

\* too few tokens, an alias argument without `=`, a chmod mode that is not octal
Malformed(args) ==
    \/ \E m \in MinTokens : args[1] = m[1] /\ Len(args) < m[2]
    \/ args[1] = <<"a","l","i","a","s">> /\ Len(args) >= 2 /\ find(args[2], "=") = npos
    \/ args[1] = <<"c","h","m","o","d">> /\ Len(args) >= 3 /\ ~IsOctal(args[2])

\* C12: a built-in called with missing or malformed arguments writes a
\* diagnostic and changes nothing else: aliases, bookmarks, working
\* directory, the files and their permissions stay as they were.
C12_UsageDiagnosticOnly ==
    [][(/\ pc = "dispatch" /\ pc' = "read"
        /\ LineArgs # <<>> /\ Malformed(LineArgs)) =>
           /\ diag' # ""
           /\ alias_map' = alias_map /\ bookmarks' = bookmarks /\ cwd' = cwd
           /\ dirs' = dirs /\ files' = files /\ perms' = perms
      ]_vars

NoSpaceInTokens(T) == \A i \in 1..Len(T) : \A k \in 1..Len(T[i]) : T[i][k] # " "

IsQuoteChar(c) == c \in {"\"", "'"}

\* a token that split_args would strip or extend when it meets it as a word,
\* or that leaves no word behind: the empty token, a token of length >= 2
\* that begins and ends with the same quote character, and a token before the
\* last one that begins with a quote character and does not end with it
Reread(T, i) ==
    \/ T[i] = <<>>
    \/ /\ Len(T[i]) >= 2 /\ IsQuoteChar(Front(T[i])) /\ Back(T[i]) = Front(T[i])
    \/ /\ i < Len(T) /\ T[i] # <<>> /\ IsQuoteChar(Front(T[i])) /\ Back(T[i]) # Front(T[i])

RECURSIVE RuleWords(_, _)
RuleWords(l, p) ==
    LET start == SkipSpaces(l, p)
    IN  IF start > Len(l) THEN <<>>
        ELSE <<SubSeq(l, start, SkipNonSpaces(l, start) - 1)>>
                 \o RuleWords(l, SkipNonSpaces(l, start))

\* the last word of the token that starts with word i: i itself, unless the
\* word begins with a quote character and does not end with it; then the
\* first later word that ends with it, or the last word of the line
RuleGroupEnd(ws, i) ==
    IF IsQuoteChar(Front(ws[i])) /\ Back(ws[i]) # Front(ws[i])
    THEN LET closers == {j \in (i + 1)..Len(ws) : Back(ws[j]) = Front(ws[i])}
         IN  IF closers = {} THEN Len(ws)
             ELSE CHOOSE j \in closers : \A k \in closers : j <= k
    ELSE i

\* one character off each end of a token of length >= 2 that begins and ends
\* with the same quote character
RuleStrip(t) ==
    IF Len(t) >= 2 /\ IsQuoteChar(Front(t)) /\ Back(t) = Front(t)
    THEN SubSeq(t, 2, Len(t) - 1)
    ELSE t

RECURSIVE RuleTokens(_, _)
RuleTokens(ws, i) ==
    IF i > Len(ws) THEN <<>>
    ELSE <<RuleStrip(JoinTokens(SubSeq(ws, i, RuleGroupEnd(ws, i))))>>
             \o RuleTokens(ws, RuleGroupEnd(ws, i) + 1)

\* C14: the tokens of a line are its whitespace-delimited words, except that
\* a word beginning with a quote character and not ending with it takes in
\* the following words, joined by single blanks, through the first one
\* ending with that character or through the end of the line; a token of
\* length >= 2 bounded by the same quote character loses both; a line of
\* whitespace only gives no token.
C14_QuotingRule ==
    tok_pc \in {"split", "again"} =>
        /\ tok_out = RuleTokens(RuleWords(tok_in, 1), 1)
        /\ (\A k \in 1..Len(tok_in) : IsSpace(tok_in[k])) => tok_out = <<>>

\* ls -l "my dir" gives [ls, -l, my dir]
C14_Witness ==
    /\ tok_pc = "split"
    /\ tok_in = <<"l","s"," ","-","l"," ","\"","m","y"," ","d","i","r","\"">>
    /\ tok_out = <<<<"l","s">>, <<"-","l">>, <<"m","y"," ","d","i","r">>>>

\* the handler the chain names for a command: the one of the only branch
\* that tests this name, cmd_tailf in place of cmd_tail when -f follows
BranchHandlers(args) ==
    {IF BuiltinTable[i][1] = <<"t","a","i","l">> /\ Len(args) > 1 /\ args[2] = <<"-","f">>
     THEN "cmd_tailf" ELSE BuiltinTable[i][2] :
        i \in {k \in 1..Len(BuiltinTable) : BuiltinTable[k][1] = args[1]}}

\* C15: a line whose first token is the name of a built-in runs the handler
\* of that name, only that one, and nothing goes to popen; a line whose
\* first token is any other string (exit and quit, which end the loop, set
\* aside) runs no handler and goes to popen whole and unchanged.
C15_DispatchRunsOneAction ==
    [][(/\ pc = "dispatch" /\ pc' = "read"
        /\ LineArgs # <<>> /\ LineArgs[1] \notin {<<"e","x","i","t">>, <<"q","u","i","t">>}) =>
           IF BranchHandlers(LineArgs) # {}
           THEN /\ BranchHandlers(LineArgs) = {handler'}
                /\ popen_line' = <<>>
           ELSE /\ handler' = ""
                /\ popen_line' = line /\ line' = line
      ]_vars

\* echo a ran cmd_echo and uname -a went to popen
C15_Witness ==
    /\ pc = "read"
    /\ history_buf = <<<<"e","c","h","o"," ","a">>, <<"u","n","a","m","e"," ","-","a">>>>
    /\ handler = "" /\ popen_line = <<"u","n","a","m","e"," ","-","a">>

\* C16: a line is substituted at most once.  A line whose first token is
\* not an alias is kept; otherwise the replacement text of that alias stands
\* at the head of the new line as it is, also when it is the name of an
\* alias.  The dispatch then goes by the first token of the new line
\* without looking at the alias table, and every line read gets there.
C16_SingleSubstitutionPass ==
    [][/\ (pc = "read" /\ nread' = nread + 1 /\ raw' # <<>>) =>
              /\ pc' = "dispatch"
              /\ LET args == split_args(raw')
                 IN  IF args = <<>> \/ args[1] \notin DOMAIN alias_map
                     THEN line' = raw'
                     ELSE /\ IsPrefixOf(alias_map[args[1]], line')
                          /\ \/ line' = alias_map[args[1]]
                             \/ /\ Len(args) > 1
                                /\ line'[Len(alias_map[args[1]]) + 1] = " "
       /\ (pc = "dispatch" /\ pc' = "read" /\ LineArgs # <<>>
           /\ LineArgs[1] \notin {<<"e","x","i","t">>, <<"q","u","i","t">>}) =>
              /\ line' = line
              /\ IF BranchHandlers(LineArgs) = {}
                 THEN popen_line' = line /\ handler' = ""
                 ELSE handler' \in BranchHandlers(LineArgs) /\ popen_line' = <<>>
      ]_vars

\* with a -> b and b -> echo, the line `a x` became `b x` and went to popen
\* as `b x`, although b is an alias
C16_Witness ==
    /\ pc = "read"
    /\ raw = <<"a"," ","x">> /\ line = <<"b"," ","x">>
    /\ <<"b">> \in DOMAIN alias_map /\ alias_map[<<"b">>] = <<"e","c","h","o">>
    /\ popen_line = <<"b"," ","x">> /\ handler = ""

\* C17: once the in-place write of the file has started or failed, the
\* backup file exists and holds the content the file had when replace was
\* called; and a call that cannot open the file writes nothing.
C17_BackupBeforeWrite ==
    /\ [](rp_pc \in {"writing", "write_failed", "stored"} =>
             /\ rp_file \o <<".","b","a","k">> \in DOMAIN disk
             /\ disk[rp_file \o <<".","b","a","k">>] = rp_orig)
    /\ [][(rp_pc = "called" /\ Len(rp_args) >= 4 /\ rp_args[2] \notin DOMAIN disk) =>
             (disk' = disk /\ rp_pc' = "returned")]_vars

\* old replaced by new in s from left to right, the text put in and the text
\* of a replaced occurrence never looked at again (old not empty)
RECURSIVE ScanReplace(_, _, _)
ScanReplace(s, old, new) ==
    IF Len(s) < Len(old) THEN s
    ELSE IF SubSeq(s, 1, Len(old)) = old
         THEN new \o ScanReplace(SubSeq(s, Len(old) + 1, Len(s)), old, new)
         ELSE <<s[1]>> \o ScanReplace(Tail(s), old, new)

\* C20: replace comes to an end for every content and every old and new,
\* the empty strings included, and what it then holds is the content with
\* the occurrences of old replaced from left to right, without overlap and
\* without a second look at the text put in.
C20_ReplaceTerminates ==
    /\ <>(rp_pc \in {"returned", "stored"})
    /\ []((rp_pc = "edited" /\ rp_old # <<>>) =>
             rp_content = ScanReplace(rp_orig, rp_old, rp_new))

\* the stream position at which the follow loop was entered: the end of
\* what the catch-up loop printed
FollowFrom ==
    LET shown == {i \in 1..Len(emitted) : emitted[i].phase = "catchup"}
    IN  IF shown = {} THEN start_off
        ELSE LET last == CHOOSE i \in shown : \A j \in shown : j <= i
             IN  emitted[last].at + Len(emitted[last].text)

\* a line of the file starts at offset at and its newline is written
CompleteLineFrom(at) ==
    /\ at <= Len(fbytes)
    /\ at = start_off \/ (at > 0 /\ fbytes[at] = "\n")
    /\ \E i \in (at + 1)..Len(fbytes) : fbytes[i] = "\n"

\* the line of the file that starts at offset at has been printed
EmittedLineFrom(at) ==
    \E i \in 1..Len(emitted) : emitted[i].at = at /\ WholeLineAt(at, emitted[i].text)

\* C18: in follow state every complete line appended to the file is printed
\* in the end, and the follower stays in the follow loop.
C18_AppendedLinesEmitted ==
    /\ \A at \in 0..MaxFileLen :
          (fpc \in {"follow", "sleep"} /\ at >= FollowFrom /\ CompleteLineFrom(at))
              ~> EmittedLineFrom(at)
    /\ [][(fpc \in {"follow", "sleep"}) => (fpc' \in {"follow", "sleep"})
         ]_vars

\* the cursor a parse function leaves lies between the cursor it was given
\* and the end of the string
CursorKept(p, r) == p <= r.p /\ r.p <= Len(expr) + 1

IsValue(x) == x.s \in {-1, 1} /\ x.n \in Nat /\ x.d \in Nat

\* C19: on every string cmd_calc comes back with a value.  From every
\* position of the string each parse function returns with the cursor at or
\* after the position it started from and not after the end; where no
\* number stands the value is 0 and the cursor rests where the number was
\* looked for; an open parenthesis is stepped over before the descent and a
\* missing closing one is let pass; a turn of either loop steps over its
\* operator.
C19_EvaluatorTerminates ==
    calc_pc = "done" =>
        /\ IsValue(calc_res) /\ expr_ptr \in 0..Len(expr)
        /\ \A p \in 1..(Len(expr) + 1) :
              LET p3 == SkipSpaces(expr, IF CharAt(expr, SkipSpaces(expr, p)) \in {"+", "-"}
                                         THEN SkipSpaces(expr, p) + 1
                                         ELSE SkipSpaces(expr, p))
                  q == SkipSpaces(expr, p)
              IN  /\ CursorKept(p, parse_number(expr, p))
                  /\ CursorKept(p, parse_term(expr, p))
                  /\ CursorKept(p, parse_expression(expr, p))
                  /\ (CharAt(expr, p3) # "(" /\ ~IsDigit(CharAt(expr, p3))
                      /\ ~(CharAt(expr, p3) \in {"+", "-"} /\ IsDigit(CharAt(expr, p3 + 1)))) =>
                         /\ parse_number(expr, p).p = p3
                         /\ NumEq(parse_number(expr, p).v, 0)
                  /\ CharAt(expr, p3) = "(" =>
                         /\ parse_number(expr, p).p > p3
                         /\ LET inner == parse_expression(expr, p3 + 1)
                            IN  CharAt(expr, inner.p) # ")" =>
                                    parse_number(expr, p).p = inner.p
                  /\ CharAt(expr, q) = "/" =>
                         /\ term_loop(expr, FromInt(1), p).p > q
                         /\ CursorKept(q + 1, term_loop(expr, FromInt(1), p))
                  /\ CharAt(expr, q) \in {"+", "-"} =>
                         /\ expression_loop(expr, FromInt(1), p).p > q
                         /\ CursorKept(q + 1, expression_loop(expr, FromInt(1), p))

\* (1-x : no number at x, no closing parenthesis; the value is 1 - 0
C19_Witness ==
    /\ calc_pc = "done"
    /\ expr = <<"(","1","-","x">>
    /\ NumEq(calc_res, 1)
    /\ expr_ptr = 3

\* the tokens of the line as it was typed
RawArgs == split_args(raw)

\* the loop is over: nothing moves any more
LoopStaysEnded == status = "exited" => UNCHANGED vars

\* C21 as stated: whatever the alias table holds, a line whose first token
\* is exit or quit ends the loop: no handler runs, nothing goes to popen and
\* no further line is read.
C21_ExitEndsLoop ==
    [][/\ (/\ pc = "dispatch" /\ pc' = "read"
           /\ RawArgs # <<>> /\ RawArgs[1] \in {<<"e","x","i","t">>, <<"q","u","i","t">>}) =>
              (status' = "exited" /\ handler' = "" /\ popen_line' = <<>>)
       /\ LoopStaysEnded
      ]_vars

\* C21 amended: a line whose first token is exit or quit ends the loop when
\* that token is not a key of the alias table.  When the first token is a
\* key, the line dispatched is the replacement text followed by the rest, and
\* the loop ends exactly when the first token of that line is exit or quit.
\* Once the loop is over no line is read and no handler runs.
C21_ExitUnlessAliased ==
    [][/\ (pc = "dispatch" /\ pc' = "read" /\ RawArgs # <<>>) =>
              IF RawArgs[1] \notin DOMAIN alias_map
              THEN RawArgs[1] \in {<<"e","x","i","t">>, <<"q","u","i","t">>} =>
                      (status' = "exited" /\ handler' = "" /\ popen_line' = <<>>)
              ELSE /\ IsPrefixOf(alias_map[RawArgs[1]], line)
                   /\ status' = "exited" <=>
                          (LineArgs # <<>> /\ LineArgs[1] \in {<<"e","x","i","t">>, <<"q","u","i","t">>})
                   /\ status' = "exited" => (handler' = "" /\ popen_line' = <<>>)
       /\ LoopStaysEnded
      ]_vars

\* with exit -> echo in the table, quit still ends the loop
C21_Witness ==
    /\ status = "exited"
    /\ raw = <<"q","u","i","t">> /\ nread = 2
    /\ <<"e","x","i","t">> \in DOMAIN alias_map /\ alias_map[<<"e","x","i","t">>] = <<"e","c","h","o">>
    /\ handler = "" /\ popen_line = <<>>

(***************************************************************************)
(* Specifications.                                                         *)
(***************************************************************************)
Init == InitRepl /\ FollowIdle /\ CalcIdle /\ ToolsIdle

Next ==
    \/ ReplRead(InputLines)
    \/ ReplEndOfInput
    \/ ReplDispatch

Spec == Init /\ [][Next]_vars

NextDirs ==
    \/ ReplRead(DirLines)
    \/ ReplEndOfInput
    \/ ReplDispatch

SpecDirs == Init /\ [][NextDirs]_vars

NextArgs ==
    \/ ReplRead(ArgLines)
    \/ ReplEndOfInput
    \/ ReplDispatch

SpecArgs == Init /\ [][NextArgs]_vars

NextAlias ==
    \/ ReplRead(AliasLines)
    \/ ReplEndOfInput
    \/ ReplDispatch

SpecAlias == Init /\ [][NextAlias]_vars

NextExit ==
    \/ ReplRead(ExitLines)
    \/ ReplEndOfInput
    \/ ReplDispatch

SpecExit == Init /\ [][NextExit]_vars

InitFollower == InitRepl /\ cwd = Root /\ InitFollow /\ CalcIdle /\ ToolsIdle

NextFollow ==
    \/ Attach /\ UNCHANGED <<replVars, calcVars, toolVars>>
    \/ CatchUp /\ UNCHANGED <<replVars, calcVars, toolVars>>
    \/ FollowRead /\ UNCHANGED <<replVars, calcVars, toolVars>>
    \/ Wake /\ UNCHANGED <<replVars, calcVars, toolVars>>
    \/ \E chunk \in BytesUpTo(MaxChunk) \ {<<>>} : WriterAppend(chunk) /\ UNCHANGED <<replVars, calcVars, toolVars>>

SpecFollow == InitFollower /\ [][NextFollow]_vars

\* the follower's own statements follow one another (the sleep of line 436
\* ends); nothing is asked of the writer
FollowerStep ==
    \/ Attach /\ UNCHANGED <<replVars, calcVars, toolVars>>
    \/ CatchUp /\ UNCHANGED <<replVars, calcVars, toolVars>>
    \/ FollowRead /\ UNCHANGED <<replVars, calcVars, toolVars>>
    \/ Wake /\ UNCHANGED <<replVars, calcVars, toolVars>>

SpecFollowFair == SpecFollow /\ WF_vars(FollowerStep)

InitEval == InitRepl /\ cwd = Root /\ FollowIdle /\ InitCalc /\ ToolsIdle

NextCalc == cmd_calc /\ UNCHANGED <<replVars, followVars, toolVars>>

SpecCalc == InitEval /\ [][NextCalc]_vars

InitEvalAny == InitRepl /\ cwd = Root /\ FollowIdle /\ InitCalcAny /\ ToolsIdle

SpecCalcAny == InitEvalAny /\ [][NextCalc]_vars

InitTokenizer == InitRepl /\ cwd = Root /\ FollowIdle /\ CalcIdle /\ InitTok /\ ReplaceIdle

NextTok ==
    \/ Tokenize /\ UNCHANGED <<replVars, followVars, calcVars, replaceVars>>
    \/ Retokenize /\ UNCHANGED <<replVars, followVars, calcVars, replaceVars>>

SpecTok == InitTokenizer /\ [][NextTok]_vars

InitReplacer == InitRepl /\ cwd = Root /\ FollowIdle /\ CalcIdle /\ TokIdle /\ InitReplace

NextReplace ==
    \/ ReplaceOpen /\ UNCHANGED <<replVars, followVars, calcVars, tokVars>>
    \/ ReplaceBackup /\ UNCHANGED <<replVars, followVars, calcVars, tokVars>>
    \/ ReplaceFind /\ UNCHANGED <<replVars, followVars, calcVars, tokVars>>
    \/ ReplaceSubst /\ UNCHANGED <<replVars, followVars, calcVars, tokVars>>
    \/ ReplaceTruncate /\ UNCHANGED <<replVars, followVars, calcVars, tokVars>>
    \/ ReplaceStore /\ UNCHANGED <<replVars, followVars, calcVars, tokVars>>

SpecReplace == InitReplacer /\ [][NextReplace]_vars

\* the statements of cmd_replace follow one another
SpecReplaceFair == SpecReplace /\ WF_vars(NextReplace)

====
